---- MODULE Spec2Model ----
(***************************************************************************)
(* State-machine model of the school activity API: the activity directory  *)
(* (signup / unregister), the announcement board (list / create / update / *)
(* delete) and the teacher credential lookup that authorises them.         *)
(*                                                                         *)
(* Every handler is one atomic action (the handlers are synchronous and    *)
(* run to completion).  The last request and its response are kept in the  *)
(* state so that properties can relate a response to the request that      *)
(* produced it and to the store before and after it.                       *)
(***************************************************************************)
EXTENDS Integers, Sequences, FiniteSets, TLC

VARIABLES
    activities,     \* activities_collection: activity name -> [participants]
    teachers,       \* teachers_collection: username -> teacher record
    announcements,  \* announcements_collection: its records, in insertion order
    now,            \* the date and time of day the process clock shows
    assigned,       \* history: the ids successful creates have returned so far
    req,            \* the last request handled
    resp            \* the response it was given

vars == <<activities, teachers, announcements, now, assigned, req, resp>>

(***************************************************************************)
(* Values.  An Optional[str] is None or Some(s): None is no string, so it  *)
(* differs from every string, the string "None" included.                  *)
(***************************************************************************)

\* Python's None.
None == << >>

\* A value that is present.
Some(x) == <<x>>

\* The value of an Optional that is not None.
Val(o) == o[1]

\* Python truthiness of an Optional[str] holding a name: None and "" are falsy.
Truthy(s) == s # None /\ Val(s) # ""

\* Python truthiness of an Optional[str] holding a text (a sequence of
\* characters): None and the empty text are falsy.
TruthyText(t) == t # None /\ Val(t) # << >>

Range(s) == {s[i] : i \in 1..Len(s)}

\* list.append(x)
ListAppend(s, x) == Append(s, x)

\* Mutant of ListRemove: drops the last element, whatever x is.
ListRemoveLast(s, x) == SubSeq(s, 1, Len(s) - 1)

\* list.remove(x): drops the first occurrence of x (x is known to occur).
ListRemove(s, x) ==
    LET i == CHOOSE k \in 1..Len(s) : s[k] = x /\ \A j \in 1..(k-1) : s[j] # x
    IN  SubSeq(s, 1, i-1) \o SubSeq(s, i+1, Len(s))

(***************************************************************************)
(* Text.  The strings that are parsed, formatted or compared (dates and    *)
(* timestamps) are sequences of characters, so that these operations are   *)
(* computed character by character as Python computes them, on any string. *)
(***************************************************************************)

Digits == <<"0","1","2","3","4","5","6","7","8","9">>

IsDigit(c) == \E i \in 1..10 : Digits[i] = c

DigitVal(c) == (CHOOSE i \in 1..10 : Digits[i] = c) - 1

\* The printable ASCII characters from code point 32 to 95, and from 97 on.
Ascii ==
    <<" ","!","\"","#","$","%","&","'","(",")","*","+",",","-",".","/",
      "0","1","2","3","4","5","6","7","8","9",":",";","<","=",">","?",
      "@","A","B","C","D","E","F","G","H","I","J","K","L","M","N","O",
      "P","Q","R","S","T","U","V","W","X","Y","Z","[","\\","]","^","_">>

AsciiLower ==
    <<"a","b","c","d","e","f","g","h","i","j","k","l","m","n","o",
      "p","q","r","s","t","u","v","w","x","y","z","{","|","}","~">>

\* The code point of every such character, computed once.
CodePoints ==
    [c \in Range(Ascii) \cup Range(AsciiLower) |->
        IF c \in Range(Ascii) THEN 31 + CHOOSE i \in 1..Len(Ascii) : Ascii[i] = c
        ELSE 96 + CHOOSE i \in 1..Len(AsciiLower) : AsciiLower[i] = c]

\* ord(c)
Ord(c) == CodePoints[c]

\* Python's str < str: lexicographic by code point, a proper prefix is smaller.
RECURSIVE CharsLess(_, _)
CharsLess(a, b) ==
    IF b = << >> THEN FALSE
    ELSE IF a = << >> THEN TRUE
    ELSE IF Ord(Head(a)) # Ord(Head(b)) THEN Ord(Head(a)) < Ord(Head(b))
    ELSE CharsLess(Tail(a), Tail(b))

\* int() of a run of decimal digits.
RECURSIVE Num(_)
Num(cs) ==
    IF cs = << >> THEN 0
    ELSE 10 * Num(SubSeq(cs, 1, Len(cs) - 1)) + DigitVal(cs[Len(cs)])

\* n as exactly w decimal digits, zero padded ("%0wd").
RECURSIVE Pad(_, _)
Pad(n, w) ==
    IF w = 0 THEN << >>
    ELSE Append(Pad(n \div 10, w - 1), Digits[(n % 10) + 1])

(***************************************************************************)
(* Calendar.  A datetime.date is [year, month, day]; a datetime.datetime   *)
(* is a date with hour, minute, second and microsecond.                    *)
(***************************************************************************)

IsLeap(y) == (y % 4 = 0 /\ y % 100 # 0) \/ y % 400 = 0

DaysInMonth(y, m) ==
    IF m = 2 THEN (IF IsLeap(y) THEN 29 ELSE 28)
    ELSE IF m \in {4, 6, 9, 11} THEN 30 ELSE 31

\* date < date
DateLess(d, e) ==
    \/ d.year < e.year
    \/ d.year = e.year /\ d.month < e.month
    \/ d.year = e.year /\ d.month = e.month /\ d.day < e.day

\* The number of days before January 1st of year y.
DaysBeforeYear(y) == (y - 1) * 365 + (y - 1) \div 4 - (y - 1) \div 100 + (y - 1) \div 400

\* The number of days of year y before the first of month m.
RECURSIVE DaysBeforeMonth(_, _)
DaysBeforeMonth(y, m) ==
    IF m = 1 THEN 0 ELSE DaysBeforeMonth(y, m - 1) + DaysInMonth(y, m - 1)

\* date.toordinal(): January 1st of year 1 is day 1.
YmdToOrd(y, m, d) == DaysBeforeYear(y) + DaysBeforeMonth(y, m) + d

\* date.fromordinal(n), for a day of year near - 1, near or near + 1.
OrdToYmd(n, near) ==
    LET y == CHOOSE c \in (near - 1)..(near + 1) :
                 DaysBeforeYear(c) < n /\ n <= DaysBeforeYear(c + 1)
        r == n - DaysBeforeYear(y)
        m == CHOOSE c \in 1..12 :
                 DaysBeforeMonth(y, c) < r /\ r <= DaysBeforeMonth(y, c) + DaysInMonth(y, c)
    IN  [year |-> y, month |-> m, day |-> r - DaysBeforeMonth(y, m)]

\* The ordinal of the Monday that starts ISO week 1 of year y.
IsoWeek1Monday(y) ==
    LET first == YmdToOrd(y, 1, 1)
        weekday == (first + 6) % 7
    IN  IF weekday > 3 THEN first - weekday + 7 ELSE first - weekday

\* date.isoformat(): "YYYY-MM-DD"
IsoFormat(d) == Pad(d.year, 4) \o <<"-">> \o Pad(d.month, 2) \o <<"-">> \o Pad(d.day, 2)

\* datetime.isoformat(): "YYYY-MM-DDTHH:MM:SS", followed by ".ffffff" when the
\* microsecond is not 0.
IsoFormatDateTime(t) ==
    IsoFormat(t.date) \o <<"T">> \o Pad(t.hour, 2) \o <<":">> \o Pad(t.minute, 2)
        \o <<":">> \o Pad(t.second, 2)
        \o (IF t.microsecond # 0 THEN <<".">> \o Pad(t.microsecond, 6) ELSE << >>)

(***************************************************************************)
(* datetime.fromisoformat(s).date(), as CPython 3.11 parses: a date        *)
(* YYYY-MM-DD, YYYYMMDD, YYYY-Www[-D] or YYYYWww[D], then optionally one   *)
(* separator character and a time HH[[:]MM[[:]SS[(.|,)f+]]] with an        *)
(* optional Z or +HH[[:]MM[[:]SS[(.|,)f+]]] offset.  Positions count from  *)
(* 0, and reading at or past the end yields NUL, as in the C string.       *)
(***************************************************************************)

\* The outcome of a parse: a date, or ValueError.
ValueError == [ok |-> FALSE, date |-> [year |-> 0, month |-> 0, day |-> 0]]

Parsed(y, m, d) == [ok |-> TRUE, date |-> [year |-> y, month |-> m, day |-> d]]

\* What is read at the end of a string: no character.
NUL == ""

\* The character at position p.
At(s, p) == IF p < Len(s) THEN s[p + 1] ELSE NUL

\* There are n digits from position p on.
DigitsAt(s, p, n) == \A k \in 0..(n - 1) : IsDigit(At(s, p + k))

\* The number the n digits from position p on denote.
NumAt(s, p, n) == Num([k \in 1..n |-> s[p + k]])

\* The position behind the run of digits that starts at idx.
RECURSIVE DigitRunEnd(_, _)
DigitRunEnd(s, idx) ==
    IF idx < Len(s) /\ IsDigit(At(s, idx)) THEN DigitRunEnd(s, idx + 1) ELSE idx

\* The position of the character that separates the date from the time in a
\* string of at least 7 characters, or -1.
FindSeparator(s) ==
    IF Len(s) = 7 THEN 7
    ELSE IF At(s, 4) = "-"
    THEN IF At(s, 5) = "W"
         THEN IF Len(s) < 8 THEN -1
              ELSE IF Len(s) > 8 /\ At(s, 8) = "-"
              THEN IF Len(s) = 9 THEN -1
                   ELSE IF Len(s) > 10 /\ IsDigit(At(s, 10)) THEN 8
                   ELSE 10
              ELSE 8
         ELSE 10
    ELSE IF At(s, 4) = "W"
    THEN LET idx == DigitRunEnd(s, 7)
         IN  IF idx < 9 THEN idx ELSE IF idx % 2 = 0 THEN 7 ELSE 8
    ELSE 8

\* The date of day d of ISO week w of year y.
IsoToYmd(y, w, d) ==
    IF y < 1 THEN ValueError
    ELSE IF ~(w \in 1..52) /\ ~(/\ w = 53
                                /\ \/ YmdToOrd(y, 1, 1) % 7 = 4
                                   \/ YmdToOrd(y, 1, 1) % 7 = 3 /\ IsLeap(y)) THEN ValueError
    ELSE IF ~(d \in 1..7) THEN ValueError
    ELSE LET n == IsoWeek1Monday(y) + (w - 1) * 7 + (d - 1)
         IN  IF n < 1 \/ n > YmdToOrd(9999, 12, 31) THEN ValueError
             ELSE LET ymd == OrdToYmd(n, y) IN Parsed(ymd.year, ymd.month, ymd.day)

\* The week date that starts at position p (behind the W), in a date part of
\* len characters.
ParseIsoWeekDate(s, len, y, has_separator, p) ==
    IF ~DigitsAt(s, p, 2) THEN ValueError
    ELSE IF ~(p + 2 < len) THEN IsoToYmd(y, NumAt(s, p, 2), 1)
    ELSE IF has_separator /\ At(s, p + 2) # "-" THEN ValueError
    ELSE LET q == IF has_separator THEN p + 3 ELSE p + 2
         IN  IF ~DigitsAt(s, q, 1) THEN ValueError
             ELSE IsoToYmd(y, NumAt(s, p, 2), NumAt(s, q, 1))

\* The calendar date that starts at position p (behind the year).
ParseIsoCalendarDate(s, y, has_separator, p) ==
    IF ~DigitsAt(s, p, 2) THEN ValueError
    ELSE IF has_separator /\ At(s, p + 2) # "-" THEN ValueError
    ELSE LET q == IF has_separator THEN p + 3 ELSE p + 2
         IN  IF ~DigitsAt(s, q, 2) THEN ValueError
             ELSE LET m == NumAt(s, p, 2)
                      d == NumAt(s, q, 2)
                  IN  IF y >= 1 /\ m \in 1..12 /\ d >= 1 /\ d <= DaysInMonth(y, m)
                      THEN Parsed(y, m, d)
                      ELSE ValueError

\* The date part: the first len characters of s.
ParseIsoDate(s, len) ==
    IF ~DigitsAt(s, 0, 4) THEN ValueError
    ELSE LET y == NumAt(s, 0, 4)
             has_separator == At(s, 4) = "-"
             p == IF has_separator THEN 5 ELSE 4
         IN  IF At(s, p) = "W"
             THEN ParseIsoWeekDate(s, len, y, has_separator, p + 1)
             ELSE ParseIsoCalendarDate(s, y, has_separator, p)

\* The outcome of parsing hours, minutes and seconds: rest tells that the
\* parse stopped before the end of the string.
TimeError == [ok |-> FALSE, rest |-> FALSE, hour |-> 0, minute |-> 0, second |-> 0]

TimeParsed(rest, vals) ==
    [ok |-> TRUE, rest |-> rest, hour |-> vals[1], minute |-> vals[2], second |-> vals[3]]

\* The position behind the digits from p on.
RECURSIVE SkipDigits(_, _)
SkipDigits(s, p) == IF IsDigit(At(s, p)) THEN SkipDigits(s, p + 1) ELSE p

\* The fraction of a second from position p up to pend: at most six digits
\* are read, further digits are skipped.
ParseFraction(s, p, pend, vals) ==
    LET n == IF pend - p >= 6 THEN 6 ELSE pend - p
    IN  IF ~DigitsAt(s, p, n) THEN TimeError
        ELSE TimeParsed(At(s, SkipDigits(s, p + n)) # NUL, vals)

\* HH[[:]MM[[:]SS[(.|,)f+]]] from position p up to pend; i counts the
\* components read so far.
RECURSIVE ParseHhMmSsFf(_, _, _, _, _, _)
ParseHhMmSsFf(s, p, pend, i, has_separator, vals) ==
    IF i = 3 THEN ParseFraction(s, p, pend, vals)
    ELSE IF ~DigitsAt(s, p, 2) THEN TimeError
    ELSE LET read == [vals EXCEPT ![i + 1] = NumAt(s, p, 2)]
             c == At(s, p + 2)
             q == p + 3
             has == IF i = 0 THEN c = ":" ELSE has_separator
         IN  IF q >= pend THEN TimeParsed(c # NUL, read)
             ELSE IF has /\ c = ":" THEN ParseHhMmSsFf(s, q, pend, i + 1, has, read)
             ELSE IF c \in {".", ","} THEN ParseFraction(s, q, pend, read)
             ELSE IF ~has THEN ParseHhMmSsFf(s, q - 1, pend, i + 1, has, read)
             ELSE TimeError

\* The position of the first Z, + or - from tz on, else the end of the string.
RECURSIVE FindTz(_, _)
FindTz(s, tz) ==
    IF At(s, tz) \in {"Z", "+", "-"} THEN tz
    ELSE IF tz + 1 < Len(s) THEN FindTz(s, tz + 1)
    ELSE tz + 1

\* The time part s (what follows the separator) is accepted: the time and the
\* offset are well formed, the time is a time of day and the offset is less
\* than a day.
IsIsoTime(s) ==
    LET tz == FindTz(s, 0)
        time == ParseHhMmSsFf(s, 0, tz, 0, TRUE, <<0, 0, 0>>)
        offset == ParseHhMmSsFf(s, tz + 1, Len(s), 0, TRUE, <<0, 0, 0>>)
    IN  /\ time.ok
        /\ time.hour < 24 /\ time.minute < 60 /\ time.second < 60
        /\ IF tz = Len(s) THEN ~time.rest
           ELSE IF At(s, tz) = "Z" THEN At(s, tz + 1) = NUL
           ELSE /\ offset.ok
                /\ ~offset.rest
                /\ offset.hour * 3600 + offset.minute * 60 + offset.second < 86400

\* The date d parsed from the first sep characters of s, when what follows
\* the separator is an accepted time part.
WithTimePart(s, sep, d) ==
    IF ~d.ok THEN ValueError
    ELSE IF Len(s) > sep /\ ~IsIsoTime(SubSeq(s, sep + 2, Len(s))) THEN ValueError
    ELSE d

\* The date of s, whose date part ends at sep.
ParseIsoAt(s, sep) ==
    IF sep < 0 THEN ValueError ELSE WithTimePart(s, sep, ParseIsoDate(s, sep))

\* The date an ISO string denotes, or ValueError.
ParseIso(s) == IF Len(s) < 7 THEN ValueError ELSE ParseIsoAt(s, FindSeparator(s))

(***************************************************************************)
(* Bounds, the clock and the inputs the requests are drawn from            *)
(***************************************************************************)

\* The largest announcement id a create may assign: in the whole-system
\* specification, in the editing specification, in the board specification.
MaxId == 1

MaxIdEdit == 1

MaxIdBoard == 2

\* The number of times the clock may be seen to have advanced.
MaxTicks == 2

\* A datetime of October 2026.
Instant(day, hour, minute, second, microsecond) ==
    [date |-> [year |-> 2026, month |-> 10, day |-> day],
     hour |-> hour, minute |-> minute, second |-> second, microsecond |-> microsecond]

\* The readings the clock gives, in order: an afternoon, a second later,
\* midnight, the next morning, the midnight after.
Timeline ==
    <<Instant(29, 14, 30, 15, 123456), Instant(29, 14, 30, 16, 123456),
      Instant(30, 0, 0, 0, 0), Instant(30, 8, 15, 0, 250000), Instant(31, 0, 0, 0, 0)>>

\* The readings that may follow the reading t.
Later(t) == {Timeline[i + 1] : i \in {k \in 1..MaxTicks : Timeline[k] = t}}

SeedTeachers == [u \in {"mchen"} |-> [display_name |-> "Ms. Chen", role |-> "teacher"]]

SeedActivities ==
    [n \in {"Chess Club", "Art Club"} |->
        [participants |-> IF n = "Chess Club" THEN <<"ann@mergington.edu">> ELSE << >>]]

\* "Robotics" is no activity.
ActivityNames == {"Chess Club", "Art Club", "Robotics"}

Emails == {"ann@mergington.edu", "bob@mergington.edu"}

\* S as Optional values, and with None.
Present(S) == {Some(x) : x \in S}

Optional(S) == {None} \cup Present(S)

\* teacher_username: absent, empty, unknown, the string "None", known.
Usernames == Optional({"", "ghost", "None", "mchen"})

\* The day before the clock's first day, that day, the day after.
Oct28 == <<"2","0","2","6","-","1","0","-","2","8">>

Oct29 == <<"2","0","2","6","-","1","0","-","2","9">>

Oct30 == <<"2","0","2","6","-","1","0","-","3","0">>

Dates == {Oct28, Oct29, Oct30}

\* A date with a time of day.
Oct29Midnight ==
    <<"2","0","2","6","-","1","0","-","2","9","T","0","0",":","0","0",":","0","0">>

\* A date in basic format, without separators.
Oct30Basic == <<"2","0","2","6","1","0","3","0">>

\* Strings that are no date: the empty string, a word, the string "None".
Empty == << >>

Soon == <<"s","o","o","n">>

NoneText == <<"N","o","n","e">>

\* What a date parameter may hold.
DateInputs == Dates \cup {Oct29Midnight, Oct30Basic, Empty, Soon, NoneText}

\* The texts that are parsed or compared: the inputs, and what the clock's
\* readings are formatted to.
KnownTexts ==
    DateInputs \cup {IsoFormat(Timeline[i].date) : i \in 1..Len(Timeline)}
               \cup {IsoFormatDateTime(Timeline[i]) : i \in 1..Len(Timeline)}

\* ParseIso of every known text, computed once.
ParsedTexts == [s \in KnownTexts |-> ParseIso(s)]

\* datetime.fromisoformat(s).date()
FromIsoFormat(s) == IF s \in KnownTexts THEN ParsedTexts[s] ELSE ParseIso(s)

\* CharsLess of every two known texts, computed once.
OrderedTexts == [s \in KnownTexts |-> [t \in KnownTexts |-> CharsLess(s, t)]]

\* s < t
StrLess(s, t) ==
    IF s \in KnownTexts /\ t \in KnownTexts THEN OrderedTexts[s][t] ELSE CharsLess(s, t)

(***************************************************************************)
(* Requests and responses                                                  *)
(***************************************************************************)

\* The request a handler was called with, each parameter as an Optional;
\* parameters a handler does not take are None.
Request(op, activity_name, email, announcement_id, message, start_date, end_date, teacher_username) ==
    [op |-> op, activity_name |-> activity_name, email |-> email,
     announcement_id |-> announcement_id, message |-> message,
     start_date |-> start_date, end_date |-> end_date,
     teacher_username |-> teacher_username]

NoRequest == Request("none", None, None, None, None, None, None, None)

\* The announcement field of a response that carries no announcement.
NoAnnouncement ==
    [id |-> "", message |-> "", start_date |-> None, end_date |-> << >>,
     created_by |-> "", created_at |-> << >>]

\* raise HTTPException(status_code, detail).  The text of a response is the
\* sequence of the pieces it is concatenated from.
HTTPException(status_code, detail) ==
    [status |-> status_code, detail |-> <<detail>>,
     announcement |-> NoAnnouncement, listing |-> << >>]

\* return {"message": <the concatenation of pieces>}
MessageResponse(pieces) ==
    [status |-> 200, detail |-> pieces,
     announcement |-> NoAnnouncement, listing |-> << >>]

\* return <announcement>
AnnouncementResponse(a) ==
    [status |-> 200, detail |-> << >>, announcement |-> a, listing |-> << >>]

\* return <list of announcements>
ListResponse(l) ==
    [status |-> 200, detail |-> << >>, announcement |-> NoAnnouncement, listing |-> l]

NoResponse == MessageResponse(<< >>)

(***************************************************************************)
(* Credential store                                                        *)
(***************************************************************************)

\* teachers_collection.get(teacher_username) is truthy
KnownTeacher(teacher_username) == Val(teacher_username) \in DOMAIN teachers

\* Mutant of CheckTeacher: the lookup in the teacher collection is left out.
CheckTeacherPresent(teacher_username) ==
    IF ~Truthy(teacher_username)
    THEN HTTPException(401, "Authentication required for this action")
    ELSE NoResponse

\* The teacher check every teacher-only handler starts with: the 401 it
\* raises, or a 200 when the request is authorised.
CheckTeacher(teacher_username) ==
    IF ~Truthy(teacher_username)
    THEN HTTPException(401, "Authentication required for this action")
    ELSE IF ~KnownTeacher(teacher_username)
    THEN HTTPException(401, "Invalid teacher credentials")
    ELSE NoResponse

(***************************************************************************)
(* Activity directory                                                      *)
(***************************************************************************)

\* Mutant of IsParticipant: only the first participant is looked at.
IsFirstParticipant(participants, email) ==
    participants # << >> /\ participants[1] = email

\* email in activity["participants"]
IsParticipant(participants, email) == email \in Range(participants)

\* Mutant of SignupOutcome: the activity is looked up before the teacher.
SignupOutcomeActivityFirst(activity_name, email, teacher_username) ==
    IF activity_name \notin DOMAIN activities
    THEN [resp |-> HTTPException(404, "Activity not found"), activities |-> activities]
    ELSE IF CheckTeacher(teacher_username).status # 200
    THEN [resp |-> CheckTeacher(teacher_username), activities |-> activities]
    ELSE IF IsParticipant(activities[activity_name].participants, email)
    THEN [resp |-> HTTPException(400, "Already signed up for this activity"),
          activities |-> activities]
    ELSE [resp |-> MessageResponse(<<"Signed up ", email, " for ", activity_name>>),
          activities |-> [activities EXCEPT ![activity_name].participants =
                              ListAppend(@, email)]]

\* Response and resulting activities_collection of a signup.
SignupOutcome(activity_name, email, teacher_username) ==
    IF CheckTeacher(teacher_username).status # 200
    THEN [resp |-> CheckTeacher(teacher_username), activities |-> activities]
    ELSE IF activity_name \notin DOMAIN activities
    THEN [resp |-> HTTPException(404, "Activity not found"), activities |-> activities]
    ELSE IF IsParticipant(activities[activity_name].participants, email)
    THEN [resp |-> HTTPException(400, "Already signed up for this activity"),
          activities |-> activities]
    ELSE [resp |-> MessageResponse(<<"Signed up ", email, " for ", activity_name>>),
          activities |-> [activities EXCEPT ![activity_name].participants =
                              ListAppend(@, email)]]

signup_for_activity(activity_name, email, teacher_username) ==
    LET out == SignupOutcome(activity_name, email, teacher_username) IN
    /\ activities' = out.activities
    /\ resp' = out.resp
    /\ req' = Request("signup", Some(activity_name), Some(email), None, None, None, None,
                      teacher_username)
    /\ UNCHANGED <<teachers, announcements, now, assigned>>

\* Response and resulting activities_collection of an unregister.
UnregisterOutcome(activity_name, email, teacher_username) ==
    IF CheckTeacher(teacher_username).status # 200
    THEN [resp |-> CheckTeacher(teacher_username), activities |-> activities]
    ELSE IF activity_name \notin DOMAIN activities
    THEN [resp |-> HTTPException(404, "Activity not found"), activities |-> activities]
    ELSE IF ~IsParticipant(activities[activity_name].participants, email)
    THEN [resp |-> HTTPException(400, "Not registered for this activity"),
          activities |-> activities]
    ELSE [resp |-> MessageResponse(<<"Unregistered ", email, " from ", activity_name>>),
          activities |-> [activities EXCEPT ![activity_name].participants =
                              ListRemove(@, email)]]

unregister_from_activity(activity_name, email, teacher_username) ==
    LET out == UnregisterOutcome(activity_name, email, teacher_username) IN
    /\ activities' = out.activities
    /\ resp' = out.resp
    /\ req' = Request("unregister", Some(activity_name), Some(email), None, None, None, None,
                      teacher_username)
    /\ UNCHANGED <<teachers, announcements, now, assigned>>

(***************************************************************************)
(* Announcement board.  announcements_collection is a dict: here the       *)
(* sequence of its values in insertion order, each carrying its key as id. *)
(* A record's start_date is an Optional text; its end_date and created_at  *)
(* are texts.                                                              *)
(***************************************************************************)

\* announcements_collection.keys()
Keys(coll) == {coll[i].id : i \in 1..Len(coll)}

\* The position of key k in the collection.
IndexOf(coll, k) == CHOOSE i \in 1..Len(coll) : coll[i].id = k

\* int(k) of a key, the inverse of str() on the keys the board assigns.
KeyToInt(k) == CHOOSE n \in 0..99 : ToString(n) = k

\* max(xs, default=0)
Max(xs) == IF xs = {} THEN 0 ELSE CHOOSE x \in xs : \A y \in xs : y <= x

\* str(max([int(k) for k in announcements_collection.keys()], default=0) + 1)
NewId(coll) == ToString(Max({KeyToInt(k) : k \in Keys(coll)}) + 1)

\* del announcements_collection[k]
DeleteKey(coll, k) ==
    LET i == IndexOf(coll, k) IN SubSeq(coll, 1, i - 1) \o SubSeq(coll, i + 1, Len(coll))

\* The active-window test of the listing, on the stored strings.
IsActive(a, current_date) ==
    /\ ~(TruthyText(a.start_date) /\ StrLess(current_date, Val(a.start_date)))
    /\ ~(a.end_date # << >> /\ StrLess(a.end_date, current_date))

\* list.sort(key=created_at, reverse=True): descending, and stable, so records
\* with equal keys keep their order.  x is placed behind every record whose key
\* is not smaller than its own.
RECURSIVE InsertByCreatedAt(_, _)
InsertByCreatedAt(sorted, x) ==
    IF sorted = << >> THEN <<x>>
    ELSE IF StrLess(Head(sorted).created_at, x.created_at) THEN <<x>> \o sorted
    ELSE <<Head(sorted)>> \o InsertByCreatedAt(Tail(sorted), x)

RECURSIVE SortByCreatedAtDesc(_)
SortByCreatedAtDesc(l) ==
    IF l = << >> THEN << >>
    ELSE InsertByCreatedAt(SortByCreatedAtDesc(SubSeq(l, 1, Len(l) - 1)), l[Len(l)])

get_active_announcements ==
    LET current_date == IsoFormat(now.date)
        active == SelectSeq(announcements, LAMBDA a : IsActive(a, current_date))
    IN  /\ resp' = ListResponse(SortByCreatedAtDesc(active))
        /\ req' = Request("get_active", None, None, None, None, None, None, None)
        /\ UNCHANGED <<activities, teachers, announcements, now, assigned>>

get_all_announcements(teacher_username) ==
    /\ resp' = IF CheckTeacher(teacher_username).status # 200
               THEN CheckTeacher(teacher_username)
               ELSE ListResponse(SortByCreatedAtDesc(announcements))
    /\ req' = Request("get_all", None, None, None, None, None, None, teacher_username)
    /\ UNCHANGED <<activities, teachers, announcements, now, assigned>>

\* start_date_obj > end_date_obj, on the parsed dates: the 400 it raises, or a
\* 200 when it passes.  A start_date that does not parse raises ValueError.
StartDateCheck(start_date_obj, end_date_obj) ==
    IF ~start_date_obj.ok
    THEN HTTPException(400, "Invalid date format. Use YYYY-MM-DD")
    ELSE IF DateLess(end_date_obj.date, start_date_obj.date)
    THEN HTTPException(400, "Start date must be before expiration date")
    ELSE NoResponse

\* Mutant of CreateEndDateCheck: an end_date of today counts as past.
CreateEndDateCheckStrict(start_date, end_date_obj) ==
    IF ~end_date_obj.ok
    THEN HTTPException(400, "Invalid date format. Use YYYY-MM-DD")
    ELSE IF ~DateLess(now.date, end_date_obj.date)
    THEN HTTPException(400, "Expiration date must be in the future")
    ELSE IF ~TruthyText(start_date)
    THEN NoResponse
    ELSE StartDateCheck(FromIsoFormat(Val(start_date)), end_date_obj)

\* The try block of create, with end_date parsed to end_date_obj and
\* date.today() read from the clock.
CreateEndDateCheck(start_date, end_date_obj) ==
    IF ~end_date_obj.ok
    THEN HTTPException(400, "Invalid date format. Use YYYY-MM-DD")
    ELSE IF DateLess(end_date_obj.date, now.date)
    THEN HTTPException(400, "Expiration date must be in the future")
    ELSE IF ~TruthyText(start_date)
    THEN NoResponse
    ELSE StartDateCheck(FromIsoFormat(Val(start_date)), end_date_obj)

\* The date checks of create: the 400 they raise, or a 200 when they pass.
CreateDateCheck(start_date, end_date) ==
    IF end_date = << >>
    THEN HTTPException(400, "Expiration date is required")
    ELSE CreateEndDateCheck(start_date, FromIsoFormat(end_date))

\* new_announcement, with datetime.now() giving the reading at.
NewAnnouncement(message, start_date, end_date, teacher_username, at) ==
    [id |-> NewId(announcements), message |-> message, start_date |-> start_date,
     end_date |-> end_date, created_by |-> Val(teacher_username),
     created_at |-> IsoFormatDateTime(at)]

\* The first check of a handler that fails, or the date checks' outcome.
FirstFailing(credentials, dates) == IF credentials.status # 200 THEN credentials ELSE dates

\* What create does once its checks gave check: raise it, or store and return
\* the new announcement a.
CreateStore(check, a) ==
    IF check.status # 200
    THEN [resp |-> check, announcements |-> announcements]
    ELSE [resp |-> AnnouncementResponse(a), announcements |-> Append(announcements, a)]

\* Response and resulting announcements_collection of a create.  The clock is
\* read twice: date.today() for the check of end_date, and datetime.now(),
\* which gives the reading at, for created_at.
CreateOutcome(message, start_date, end_date, teacher_username, at) ==
    CreateStore(FirstFailing(CheckTeacher(teacher_username),
                             CreateDateCheck(start_date, end_date)),
                NewAnnouncement(message, start_date, end_date, teacher_username, at))

\* A create during which the clock advances to the reading at (at = now when
\* it does not advance); a create that is rejected does not read it twice.
create_announcement(message, start_date, end_date, teacher_username, at) ==
    /\ \E out \in {CreateOutcome(message, start_date, end_date, teacher_username, at)} :
           /\ announcements' = out.announcements
           /\ resp' = out.resp
    /\ assigned' = IF resp'.status = 200
                   THEN assigned \cup {resp'.announcement.id} ELSE assigned
    /\ now' = IF resp'.status = 200 THEN at ELSE now
    /\ req' = Request("create", None, None, None, Some(message), start_date, Some(end_date),
                      teacher_username)
    /\ UNCHANGED <<activities, teachers>>

\* Mutant of WithMessageAndStart: start_date is not assigned before end_date
\* is checked.
WithMessageOnly(existing, message, start_date) ==
    IF message # None THEN [existing EXCEPT !.message = Val(message)] ELSE existing

\* The record after the message and start_date assignments of update, which
\* run before end_date is looked at.
WithMessageAndStart(existing, message, start_date) ==
    LET a == IF message # None THEN [existing EXCEPT !.message = Val(message)] ELSE existing
    IN  IF start_date # None THEN [a EXCEPT !.start_date = start_date] ELSE a

\* The try block of update against the record's current start_date, with
\* end_date parsed to end_date_obj.
UpdateEndDateCheck(current_start_date, end_date_obj) ==
    IF ~end_date_obj.ok
    THEN HTTPException(400, "Invalid date format. Use YYYY-MM-DD")
    ELSE IF ~TruthyText(current_start_date)
    THEN NoResponse
    ELSE StartDateCheck(FromIsoFormat(Val(current_start_date)), end_date_obj)

\* The end_date check of update: the 400 it raises, or a 200 when it passes.
UpdateDateCheck(current_start_date, end_date) ==
    UpdateEndDateCheck(current_start_date, FromIsoFormat(end_date))

\* What update does with end_date once its check gave check: raise it, or
\* assign end_date.  a is record i after the assignments made so far.
UpdateEndDate(i, a, end_date, check) ==
    IF check.status # 200
    THEN [resp |-> check, announcements |-> [announcements EXCEPT ![i] = a]]
    ELSE [resp |-> AnnouncementResponse([a EXCEPT !.end_date = end_date]),
          announcements |-> [announcements EXCEPT ![i] = [a EXCEPT !.end_date = end_date]]]

\* Response and resulting announcements_collection of an update.  The record
\* is changed in place, field by field, so what was assigned before a check
\* fails stays assigned.
UpdateOutcome(announcement_id, message, start_date, end_date, teacher_username) ==
    IF CheckTeacher(teacher_username).status # 200
    THEN [resp |-> CheckTeacher(teacher_username), announcements |-> announcements]
    ELSE IF announcement_id \notin Keys(announcements)
    THEN [resp |-> HTTPException(404, "Announcement not found"),
          announcements |-> announcements]
    ELSE LET i == IndexOf(announcements, announcement_id)
             a == WithMessageAndStart(announcements[i], message, start_date)
         IN  IF end_date = None
             THEN [resp |-> AnnouncementResponse(a),
                   announcements |-> [announcements EXCEPT ![i] = a]]
             ELSE UpdateEndDate(i, a, Val(end_date),
                                UpdateDateCheck(a.start_date, Val(end_date)))

update_announcement(announcement_id, message, start_date, end_date, teacher_username) ==
    \E out \in {UpdateOutcome(announcement_id, message, start_date, end_date,
                              teacher_username)} :
        /\ announcements' = out.announcements
        /\ resp' = out.resp
        /\ req' = Request("update", None, None, Some(announcement_id), message, start_date,
                          end_date, teacher_username)
        /\ UNCHANGED <<activities, teachers, now, assigned>>

\* Response and resulting announcements_collection of a delete.
DeleteOutcome(announcement_id, teacher_username) ==
    IF CheckTeacher(teacher_username).status # 200
    THEN [resp |-> CheckTeacher(teacher_username), announcements |-> announcements]
    ELSE IF announcement_id \notin Keys(announcements)
    THEN [resp |-> HTTPException(404, "Announcement not found"),
          announcements |-> announcements]
    ELSE [resp |-> MessageResponse(<<"Announcement deleted successfully">>),
          announcements |-> DeleteKey(announcements, announcement_id)]

delete_announcement(announcement_id, teacher_username) ==
    LET out == DeleteOutcome(announcement_id, teacher_username) IN
    /\ announcements' = out.announcements
    /\ resp' = out.resp
    /\ req' = Request("delete", None, None, Some(announcement_id), None, None, None,
                      teacher_username)
    /\ UNCHANGED <<activities, teachers, now, assigned>>

(***************************************************************************)
(* Actions: a handler called with inputs from the given sets               *)
(***************************************************************************)

\* Time passes between two requests.
Tick ==
    /\ \E t \in Later(now) : now' = t
    /\ UNCHANGED <<activities, teachers, announcements, assigned, req, resp>>

Signup(names, emails, users) ==
    \E n \in names, e \in emails, u \in users : signup_for_activity(n, e, u)

Unregister(names, emails, users) ==
    \E n \in names, e \in emails, u \in users : unregister_from_activity(n, e, u)

GetActive == get_active_announcements

GetAll(users) == \E u \in users : get_all_announcements(u)

\* lapse tells whether the clock may advance while a create runs.
Create(maxId, messages, starts, ends, users, lapse) ==
    \E m \in messages, s \in starts, e \in ends, u \in users :
        \E at \in {now} \cup (IF lapse THEN Later(now) ELSE {}) :
            /\ KeyToInt(NewId(announcements)) <= maxId
            /\ create_announcement(m, s, e, u, at)

Update(ids, messages, starts, ends, users) ==
    \E k \in ids, m \in messages, s \in starts, e \in ends, u \in users :
        update_announcement(k, m, s, e, u)

Delete(ids, users) == \E k \in ids, u \in users : delete_announcement(k, u)

(***************************************************************************)
(* Specifications                                                          *)
(***************************************************************************)

Init ==
    /\ activities = SeedActivities
    /\ teachers = SeedTeachers
    /\ announcements = << >>
    /\ now = Timeline[1]
    /\ assigned = {}
    /\ req = NoRequest
    /\ resp = NoResponse

\* The whole system, every handler with every kind of teacher_username.
Next ==
    \/ Signup({"Chess Club", "Robotics"}, {"bob@mergington.edu"}, Usernames)
    \/ Unregister({"Chess Club", "Robotics"}, {"bob@mergington.edu"}, Usernames)
    \/ GetActive
    \/ GetAll(Usernames)
    \/ Create(MaxId, {"Exams"}, {None}, {Oct30}, Usernames, TRUE)
    \/ Update({"1", "2"}, Optional({"Fair", "None"}), {None}, Optional({Soon}), Usernames)
    \/ Delete({"1", "2"}, Usernames)
    \/ Tick

Spec == Init /\ [][Next]_vars

\* The activity directory.
NextAct ==
    \/ Signup(ActivityNames, Emails, Usernames)
    \/ Unregister(ActivityNames, Emails, Usernames)

SpecAct == Init /\ [][NextAct]_vars

\* Editing announcements: every combination of dates, by a known teacher.
NextEdit ==
    \/ Create(MaxIdEdit, {"Exams"}, Optional(DateInputs), DateInputs, {Some("mchen")}, FALSE)
    \/ Update({"1", "2"}, {None}, Optional({Empty, Oct29, Oct30, NoneText}),
              Optional({Oct28, Oct29, Oct30Basic, Soon}), {Some("mchen")})
    \/ Delete({"1", "2"}, {Some("mchen")})

SpecEdit == Init /\ [][NextEdit]_vars

\* The board over time: several announcements, listed as time passes.
NextBoard ==
    \/ Create(MaxIdBoard, {"Exams"}, Optional(Dates \cup {Oct29Midnight}), Dates, {Some("mchen")},
              TRUE)
    \/ Update({"1", "2", "3"}, {None}, Optional({Oct30}), Optional({Oct28}), {Some("mchen")})
    \/ Delete({"1", "2", "3"}, {Some("mchen")})
    \/ GetActive
    \/ GetAll({Some("mchen")})
    \/ Tick

SpecBoard == Init /\ [][NextBoard]_vars

(***************************************************************************)
(* Properties                                                              *)
(***************************************************************************)

\* The step only moves the clock.
ClockOnly ==
    now' # now /\ UNCHANGED <<activities, teachers, announcements, assigned, req, resp>>

\* The step is a call of handler op.
Handled(op) == req'.op = op /\ ~ClockOnly

\* The request names a key of the teacher collection.
ByTeacher(r) == r.teacher_username # None /\ Val(r.teacher_username) \in DOMAIN teachers

\* The stored record with key k.
Stored(coll, k) == coll[IndexOf(coll, k)]

\* s without every occurrence of x, order kept.
Without(s, x) == SelectSeq(s, LAMBDA y : y # x)

\* C1: every activity's participants list holds each email at most once, after
\* any sequence of accepted and rejected signups and unregisters.
C1_NoDuplicateParticipants ==
    \A n \in DOMAIN activities :
        \A i, j \in 1..Len(activities[n].participants) :
            activities[n].participants[i] = activities[n].participants[j] => i = j

\* A signup of an email that is already a participant was rejected.
C1_Witness ==
    /\ req.op = "signup"
    /\ resp.status = 400
    /\ Val(req.activity_name) \in DOMAIN activities
    /\ IsParticipant(activities[Val(req.activity_name)].participants, Val(req.email))

TeacherOps == {"signup", "unregister", "create", "update", "delete", "get_all"}

\* C2: a teacher-only request whose teacher_username is absent, empty or no key
\* of the teacher collection is answered 401 and changes neither the activities
\* nor the announcements; and every change of the activities or of the
\* announcements comes from a request whose teacher_username is such a key.
C2_TeacherOnly ==
    [][/\ (\E op \in TeacherOps : Handled(op)) /\ ~ByTeacher(req')
          => /\ resp'.status = 401
             /\ activities' = activities
             /\ announcements' = announcements
       /\ activities' # activities \/ announcements' # announcements
          => req'.op \in TeacherOps /\ ByTeacher(req')]_vars

\* An update by an unknown teacher of a stored announcement was refused.
C2_Witness ==
    /\ req.op = "update"
    /\ req.teacher_username = Some("ghost")
    /\ Val(req.announcement_id) \in Keys(announcements)
    /\ req.message # None
    /\ resp.status = 401

\* C3: every successful create assigns an id greater than every id assigned
\* by an earlier successful create, so no id is assigned twice.
C3_IdsStrictlyIncreasing ==
    [][Handled("create") /\ resp'.status = 200
          => /\ KeyToInt(resp'.announcement.id) > 0
             /\ \A k \in assigned : KeyToInt(k) < KeyToInt(resp'.announcement.id)]_vars

\* C4: every stored announcement has an end_date, and one that has both dates
\* has start_date <= end_date.
C4_DatesInOrder ==
    \A i \in 1..Len(announcements) :
        LET a == announcements[i] IN
        /\ a.end_date # << >>
        /\ (/\ TruthyText(a.start_date)
            /\ FromIsoFormat(Val(a.start_date)).ok
            /\ FromIsoFormat(a.end_date).ok)
           => ~DateLess(FromIsoFormat(a.end_date).date, FromIsoFormat(Val(a.start_date)).date)

\* The request is an update of a stored announcement by a known teacher that
\* supplies both dates.
UpdatesBothDates ==
    /\ Handled("update")
    /\ ByTeacher(req')
    /\ Val(req'.announcement_id) \in Keys(announcements)
    /\ req'.start_date # None
    /\ req'.end_date # None

\* end_date fails against start_date: end_date does not parse, or start_date is
\* set and does not parse or is later than end_date.
EndFailsAgainst(start_date, end_date) ==
    \/ ~FromIsoFormat(end_date).ok
    \/ /\ TruthyText(start_date)
       /\ \/ ~FromIsoFormat(Val(start_date)).ok
          \/ DateLess(FromIsoFormat(end_date).date, FromIsoFormat(Val(start_date)).date)

\* C5 as stated: an update that supplies both dates is rejected with 400
\* exactly when a date fails to parse or the start_date the record held before
\* the request is later than the new end_date; the two new dates are not
\* compared with each other.
C5_EndAgainstOldStart ==
    [][UpdatesBothDates
          => (resp'.status = 400
              <=> \/ TruthyText(req'.start_date) /\ ~FromIsoFormat(Val(req'.start_date)).ok
                  \/ EndFailsAgainst(Stored(announcements, Val(req'.announcement_id)).start_date,
                                     Val(req'.end_date)))]_vars

\* C5 as amended: an update that supplies both dates is rejected with 400
\* exactly when the new end_date fails against the new start_date; the
\* start_date the record held before plays no part.
C5_EndAgainstNewStart ==
    [][UpdatesBothDates
          => /\ resp'.status \in {200, 400}
             /\ resp'.status = 400 <=> EndFailsAgainst(req'.start_date, Val(req'.end_date))]_vars

\* An update supplied a start_date later than the end_date it supplied, on a
\* record whose start_date was not later than that end_date, and was rejected.
C5_Witness ==
    /\ req.op = "update"
    /\ req.start_date = Some(Oct30)
    /\ req.end_date = Some(Oct29)
    /\ resp.status = 400
    /\ resp.detail = <<"Start date must be before expiration date">>

\* The status the ordered checks of signup and unregister give.
FirstFailure(r) ==
    IF r.teacher_username = None \/ r.teacher_username = Some("") THEN 401
    ELSE IF Val(r.teacher_username) \notin DOMAIN teachers THEN 401
    ELSE IF Val(r.activity_name) \notin DOMAIN activities THEN 404
    ELSE IF /\ r.op = "signup"
            /\ Val(r.email) \in Range(activities[Val(r.activity_name)].participants)
    THEN 400
    ELSE IF /\ r.op = "unregister"
            /\ Val(r.email) \notin Range(activities[Val(r.activity_name)].participants)
    THEN 400
    ELSE 200

\* C6: signup and unregister answer with the status of the first check that
\* fails, in the order teacher_username present, teacher known, activity known,
\* email (not) a participant.
C6_FirstFailingCheck ==
    [][Handled("signup") \/ Handled("unregister") => resp'.status = FirstFailure(req')]_vars

\* An unknown teacher asked for an unknown activity and got 401.
C6_Witness ==
    /\ req.op = "signup"
    /\ req.teacher_username = Some("ghost")
    /\ req.activity_name = Some("Robotics")
    /\ resp.status = 401

\* The dates of a create request are acceptable on the day d.
CreateAcceptable(r, d) ==
    /\ Val(r.end_date) # << >>
    /\ FromIsoFormat(Val(r.end_date)).ok
    /\ ~DateLess(FromIsoFormat(Val(r.end_date)).date, d)
    /\ TruthyText(r.start_date)
       => /\ FromIsoFormat(Val(r.start_date)).ok
          /\ ~DateLess(FromIsoFormat(Val(r.end_date)).date,
                       FromIsoFormat(Val(r.start_date)).date)

\* C7: a create by a known teacher succeeds exactly when its dates are
\* acceptable; a rejected one answers 400 and adds nothing, an accepted one
\* adds exactly one record, carrying the request's message, dates and teacher.
C7_CreateValidation ==
    [][Handled("create") /\ ByTeacher(req')
          => IF CreateAcceptable(req', now.date)
             THEN /\ resp'.status = 200
                  /\ Len(announcements') = Len(announcements) + 1
                  /\ SubSeq(announcements', 1, Len(announcements)) = announcements
                  /\ LET a == announcements'[Len(announcements')] IN
                     /\ a.message = Val(req'.message)
                     /\ a.start_date = req'.start_date
                     /\ a.end_date = Val(req'.end_date)
                     /\ a.created_by = Val(req'.teacher_username)
                     /\ a = resp'.announcement
             ELSE /\ resp'.status = 400
                  /\ announcements' = announcements]_vars

\* A create whose end_date is today was accepted and stored.
C7_Witness ==
    /\ req.op = "create"
    /\ req.end_date = Some(IsoFormat(now.date))
    /\ resp.status = 200
    /\ resp.announcement.id \in Keys(announcements)

\* C8: for a known teacher and an existing activity, unregister succeeds
\* exactly when the email is a participant; it then removes the email and
\* leaves the other participants, in their order, and the other activities as
\* they were; otherwise it answers 400 and changes nothing.
C8_UnregisterRemoves ==
    [][(/\ Handled("unregister")
        /\ ByTeacher(req')
        /\ Val(req'.activity_name) \in DOMAIN activities)
          => LET n == Val(req'.activity_name)
                 before == activities[n].participants
             IN  IF Val(req'.email) \in Range(before)
                 THEN /\ resp'.status = 200
                      /\ activities' =
                           [activities EXCEPT ![n].participants = Without(before, Val(req'.email))]
                 ELSE /\ resp'.status = 400
                      /\ activities' = activities]_vars

\* An unregister removed the first of two participants.
C8_Witness ==
    /\ req.op = "unregister"
    /\ resp.status = 200
    /\ req.email = Some("ann@mergington.edu")
    /\ activities[Val(req.activity_name)].participants = <<"bob@mergington.edu">>

\* The day d lies in the window of a, bounds included, by the dates the strings denote.
InWindow(a, d) ==
    /\ TruthyText(a.start_date) => ~DateLess(d, FromIsoFormat(Val(a.start_date)).date)
    /\ a.end_date # << >> => ~DateLess(FromIsoFormat(a.end_date).date, d)

\* C9: the active listing returns exactly the stored announcements whose window
\* holds today, the full listing of a known teacher returns every stored
\* announcement, and neither changes the collection.
C9_Listings ==
    [][/\ Handled("get_active")
          => /\ announcements' = announcements
             /\ Len(resp'.listing) = Cardinality(Range(resp'.listing))
             /\ Range(resp'.listing) = {a \in Range(announcements) : InWindow(a, now.date)}
       /\ Handled("get_all") /\ ByTeacher(req')
          => /\ announcements' = announcements
             /\ Len(resp'.listing) = Len(announcements)
             /\ Range(resp'.listing) = Range(announcements)]_vars

\* C10: a request answered with an error leaves the activities, the
\* announcements and the teachers as they were.
C10_ErrorsChangeNothing ==
    [][resp'.status \in {400, 401, 404}
          => /\ activities' = activities
             /\ announcements' = announcements
             /\ teachers' = teachers]_vars
====
